---- MODULE Spec2Model ----
(***************************************************************************)
(* A model of multiview-volume/src/main.cpp: the per-view extractor        *)
(* processView, the accumulator combineVoxels and the frame loop of main.  *)
(*                                                                         *)
(* Every `float` of the program is an IEEE-754 binary32 value.  The model  *)
(* keeps that arithmetic: a non-negative float is the record [m, e] of     *)
(* value m * 2^e, with m = 0 (zero) or 2^23 <= m < 2^24, and each          *)
(* operation rounds to nearest, ties to even, as the hardware does.  The   *)
(* program never produces a negative, subnormal, infinite or NaN float on  *)
(* the inputs modelled (bytes divided by 255, sums and means of them).     *)
(***************************************************************************)
EXTENDS Integers, Sequences, FiniteSets, TLC

----------------------------------------------------------------------------
(* binary32 arithmetic *)

MantBits == 24

\* the number of bits of n, for 0 <= n < 2^31
BitLen4(n) ==
  IF n = 0 THEN 0 ELSE IF n < 2 THEN 1 ELSE IF n < 4 THEN 2 ELSE IF n < 8 THEN 3 ELSE 4
BitLen8(n) == IF n < 16 THEN BitLen4(n) ELSE 4 + BitLen4(n \div 16)
BitLen16(n) == IF n < 256 THEN BitLen8(n) ELSE 8 + BitLen8(n \div 256)
BitLen(n) == IF n < 65536 THEN BitLen16(n) ELSE 16 + BitLen16(n \div 65536)

FZero == [m |-> 0, e |-> 0]

\* The float nearest to (m + f) * 2^e, where 0 < f < 1 if sticky and f = 0
\* otherwise: round to nearest, ties to even.
RoundPack(m, e, sticky) ==
  LET L == BitLen(m) IN
  IF m = 0 THEN FZero
  ELSE IF L <= MantBits
  THEN [m |-> m * 2^(MantBits - L), e |-> e - (MantBits - L)]
  ELSE LET s    == L - MantBits
           q    == m \div 2^s
           rem  == m % 2^s
           half == 2^(s - 1)
           up   == \/ rem > half
                   \/ rem = half /\ (sticky \/ q % 2 = 1)
           r    == IF up THEN q + 1 ELSE q
       IN IF r = 2^MantBits
          THEN [m |-> 2^(MantBits - 1), e |-> e + s + 1]
          ELSE [m |-> r, e |-> e + s]

\* int -> float conversion
FromInt(n) == RoundPack(n, 0, FALSE)

FLess(a, b) ==
  IF b.m = 0 THEN FALSE
  ELSE IF a.m = 0 THEN TRUE
  ELSE a.e < b.e \/ (a.e = b.e /\ a.m < b.m)

\* a + b
FAdd(a, b) ==
  IF a.m = 0 THEN b
  ELSE IF b.m = 0 THEN a
  ELSE LET big    == IF a.e >= b.e THEN a ELSE b
           sm     == IF a.e >= b.e THEN b ELSE a
           d      == big.e - sm.e
           sm8    == sm.m * 8
           shf    == IF d > 27 THEN 0 ELSE sm8 \div 2^d
           sticky == IF d > 27 THEN TRUE ELSE sm8 % 2^d # 0
       IN RoundPack(big.m * 8 + shf, big.e - 3, sticky)

\* a - b, for a >= b
FSub(a, b) ==
  IF b.m = 0 THEN a
  ELSE LET d      == a.e - b.e
           b8     == b.m * 8
           shf    == IF d > 27 THEN 0 ELSE b8 \div 2^d
           sticky == IF d > 27 THEN TRUE ELSE b8 % 2^d # 0
           diff   == a.m * 8 - shf - (IF sticky THEN 1 ELSE 0)
       IN RoundPack(diff, a.e - 3, sticky)

\* the number of trailing zero bits of n, for 0 < n < 2^31
Zeros4(n) ==
  IF n % 2 = 1 THEN 0 ELSE IF n % 4 = 2 THEN 1 ELSE IF n % 8 = 4 THEN 2 ELSE 3
Zeros8(n) == IF n % 16 = 0 THEN 4 + Zeros4(n \div 16) ELSE Zeros4(n)
Zeros16(n) == IF n % 256 = 0 THEN 8 + Zeros8(n \div 256) ELSE Zeros8(n)
Zeros(n) == IF n % 65536 = 0 THEN 16 + Zeros16(n \div 65536) ELSE Zeros16(n)

\* f with the trailing zeros of its mantissa moved into its exponent
OddPart(f) ==
  IF f.m = 0 THEN f
  ELSE LET k == Zeros(f.m) IN [m |-> f.m \div 2^k, e |-> f.e + k]

\* a * b: the exact product of the mantissas with their trailing zeros
\* removed, rounded once.
FMul(a, b) ==
  LET x == OddPart(a)
      y == OddPart(b)
  IN RoundPack(x.m * y.m, x.e + y.e, FALSE)

\* Long division, 5 bits a step: <<q, r>> becomes the quotient extended by
\* the next 5 bits of r / mb and the remainder left, for r < mb < 2^24.
DivStep(qr, mb) ==
  <<qr[1] * 32 + ((qr[2] * 32) \div mb), (qr[2] * 32) % mb>>

\* a / b, for b # 0: floor(a.m * 2^25 / b.m), and whether that was exact
FDiv(a, b) ==
  IF a.m = 0 THEN FZero
  ELSE LET d0 == <<a.m \div b.m, a.m % b.m>>
           d5 == DivStep(DivStep(DivStep(DivStep(DivStep(d0, b.m), b.m), b.m), b.m), b.m)
       IN RoundPack(d5[1], a.e - b.e - (MantBits + 1), d5[2] # 0)

\* static_cast<int>(std::round(f)): halves round away from zero
FRoundToInt(f) ==
  IF f.m = 0 THEN 0
  ELSE IF f.e >= 0 THEN f.m * 2^f.e
  ELSE IF -f.e > MantBits + 1 THEN 0
  ELSE LET s == -f.e
           q == f.m \div 2^s
       IN IF f.m % 2^s >= 2^(s - 1) THEN q + 1 ELSE q

----------------------------------------------------------------------------
(* bounds of the model, and the inputs drawn within them *)

\* options.textureSize of the extractor runs ranges over 2..MaxTextureSize
MaxTextureSize == 4
\* decoded images are at most MaxDim pixels wide and high
MaxDim == 3
\* options.textureSize of the accumulator runs and of the frame loop
SmallTextureSize == 2
\* combineVoxels is run on every list of at most MaxList contributions
MaxList == 3
\* options.startFrame (its default) and options.endFrame
StartFrame == 1
EndFrame == 2
NumViews == 6
MaxChannels == 4

\* Alpha bytes of the test images: both sides of both ends of the band
\* (12|13 and 242|243), the two bytes next to a = 0.99, a = 0.5, 0 and 255.
AlphaPalette == <<128, 255, 64, 242, 243, 12, 252, 13, 0, 253>>
\* What a read past the end of the buffer may return.
GarbageBytes == {0, 128}

\* A decoded w x h image of ch interleaved channels, row-major: the pixel
\* at row r, column c holds R = 10(r+1), G = 20(c+1), B = 7 and an alpha of
\* the palette, of which only the first ch channels are stored.
PixelChannel(w, r, c, k, s) ==
  CASE k = 0 -> 10 * (r + 1)
    [] k = 1 -> 20 * (c + 1)
    [] k = 2 -> 7
    [] OTHER -> AlphaPalette[((r * w + c + s) % Len(AlphaPalette)) + 1]

TestImage(w, h, ch, s) ==
  [ok |-> TRUE, width |-> w, height |-> h, channels |-> ch,
   data |-> [i \in 1..(w * h * ch) |->
               PixelChannel(w, ((i - 1) \div ch) \div w, ((i - 1) \div ch) % w,
                            (i - 1) % ch, s)]]

\* stbi_load's result for a file that is missing or does not decode
NullImage == [ok |-> FALSE, width |-> 0, height |-> 0, channels |-> 0, data |-> <<>>]

\* the palette shifts the test images come in
Shifts == {0, 1}

\* Every image the decoder may return: any size, any channel count.
AnyImages ==
  {TestImage(w, h, ch, s) : w \in 1..MaxDim, h \in 1..MaxDim,
                            ch \in 1..MaxChannels, s \in Shifts}

\* The images the program is documented to take: textureSize square, RGBA.
SquareImages(n) == {TestImage(n, n, 4, s) : s \in Shifts}

----------------------------------------------------------------------------
(* the program *)

VARIABLES
  pc,             \* where the program is
  textureSize,    \* options.textureSize
  frame,          \* main's loop variable
  viewIndex,      \* main's inner loop variable, processView's parameter
  img,            \* processView: the decoded image
  y, z,           \* processView: the loop variables
  processedVoxels,\* processView: its counter
  skippedVoxels,  \* processView: its counter
  voxelDataList,  \* main's list, filled by processView
  rgbGrid,        \* the active voxels of the Vec3fGrid and their values
  alphaGrid,      \* the active voxels of the FloatGrid and their values
  idx,            \* combineVoxels: the position of its range-for
  lastRead,       \* history: the last pixel processView read
  readLog,        \* history: the bytes processView read, pixel by pixel
  frameInputs,    \* history: what stbi_load returned for this frame's views
  failedBefore,   \* history: a view of an earlier frame failed to decode
  output          \* what was last handed to the writer, and how that went

vars == <<pc, textureSize, frame, viewIndex, img, y, z, processedVoxels,
          skippedVoxels, voxelDataList, rgbGrid, alphaGrid, idx, lastRead,
          readLog, frameInputs, failedBefore, output>>

viewVars == <<img, y, z, processedVoxels, skippedVoxels, lastRead, readLog>>
gridVars == <<rgbGrid, alphaGrid, idx>>

NoRead == [y |-> -1, z |-> -1, off |-> -1, bytes |-> <<0, 0, 0, 0>>,
           inb |-> TRUE, kept |-> FALSE]
NoOutput == [frame |-> 0, rgb |-> <<>>, alpha |-> <<>>, rot |-> 0,
             inputs |-> <<>>, ok |-> TRUE]
EmptyGrid == <<>>

One == FromInt(1)
\* const float depthThreshold = 0.05f
DepthThreshold == FDiv(FromInt(5), FromInt(100))

\* img[i] / 255.0f, for each value of an unsigned char
ByteQuotients == [byte \in 0..255 |-> FDiv(FromInt(byte), FromInt(255))] @@ <<>>

\* img[i] / 255.0f
Normalized(byte) == ByteQuotients[byte]

\* the index of the first byte the loop body reads for (y, z)
PixelOffset(im, yy, zz) == (zz * im.width * im.channels) + (yy * im.channels)

BufferSize(im) == im.width * im.height * im.channels

InBuffer(im, i) == 0 <= i /\ i < BufferSize(im)

\* The four reads img[off], img[off+1], img[off+2], img[off+3].  A read
\* outside the buffer is undefined: it yields some byte, or the process
\* dies on the access.
ReadOutcomes(im, yy, zz) ==
  LET off == PixelOffset(im, yy, zz)
      inb == \A k \in 0..3 : InBuffer(im, off + k)
  IN IF inb
     THEN {[bytes |-> [k \in 1..4 |-> im.data[off + k]], inb |-> TRUE,
            crash |-> FALSE]}
     ELSE {[bytes |-> [k \in 1..4 |-> IF InBuffer(im, off + k - 1)
                                      THEN im.data[off + k] ELSE g],
            inb |-> FALSE, crash |-> FALSE] : g \in GarbageBytes}
          \cup {[bytes |-> <<0, 0, 0, 0>>, inb |-> FALSE, crash |-> TRUE]}

\* float depth = 1.0f - a
Depth(a) == FSub(One, Normalized(a))

\* int x = static_cast<int>(std::round(depth * (textureSize - 1)))
AlongAxis(a, n) == FRoundToInt(FMul(Depth(a), FromInt(n - 1)))

\* Rejected without its second test: the far end of the band is open
RejectedNearOnly(a) == FLess(Depth(a), DepthThreshold)

\* depth < depthThreshold || depth > (1.0f - depthThreshold)
Rejected(a) ==
  \/ FLess(Depth(a), DepthThreshold)
  \/ FLess(FSub(One, DepthThreshold), Depth(a))

\* Remap with the PX case not flipping y
RemapUnflippedPX(view, n, x, yy, zz) ==
  CASE view = 0 -> <<n - 1 - x, yy, zz>>
    [] view = 1 -> <<n - 1 - zz, n - 1 - yy, x>>
    [] view = 2 -> <<n - 1 - yy, n - 1 - x, zz>>
    [] view = 3 -> <<x, yy, zz>>
    [] view = 4 -> <<n - 1 - zz, yy, n - 1 - x>>
    [] OTHER    -> <<yy, x, zz>>

\* the switch on viewIndex
Remap(view, n, x, yy, zz) ==
  CASE view = 0 -> <<n - 1 - x, yy, zz>>
    [] view = 1 -> <<n - 1 - zz, n - 1 - yy, x>>
    [] view = 2 -> <<n - 1 - yy, n - 1 - x, zz>>
    [] view = 3 -> <<x, n - 1 - yy, zz>>
    [] view = 4 -> <<n - 1 - zz, yy, n - 1 - x>>
    [] OTHER    -> <<yy, x, zz>>

\* the VoxelData the loop body builds from the bytes it read
MakeVoxel(view, n, bytes, yy, zz) ==
  LET c == Remap(view, n, AlongAxis(bytes[4], n), yy, zz)
  IN [x |-> c[1], y |-> c[2], z |-> c[3],
      color |-> <<Normalized(bytes[1]), Normalized(bytes[2]), Normalized(bytes[3])>>,
      alpha |-> One]

\* LoadImage ending the program on nullptr instead of returning
LoadImageFatal(files) ==
  /\ pc = "view"
  /\ viewIndex < NumViews
  /\ \E im \in files \cup {NullImage} :
       /\ img' = im
       /\ frameInputs' = Append(frameInputs, im)
       /\ pc' = IF im.ok THEN "pixel" ELSE "exit"
  /\ y' = 0
  /\ z' = 0
  /\ processedVoxels' = 0
  /\ skippedVoxels' = 0
  /\ lastRead' = NoRead
  /\ readLog' = <<>>
  /\ UNCHANGED <<textureSize, frame, viewIndex, voxelDataList, gridVars,
                 failedBefore, output>>

\* processView up to its loop: stbi_load, and the return on nullptr.
\* `files` is what the decoder may find behind the file name.
LoadImage(files) ==
  /\ pc = "view"
  /\ viewIndex < NumViews
  /\ \E im \in files \cup {NullImage} :
       /\ img' = im
       /\ frameInputs' = Append(frameInputs, im)
       /\ pc' = IF im.ok THEN "pixel" ELSE "ret"
  /\ y' = 0
  /\ z' = 0
  /\ processedVoxels' = 0
  /\ skippedVoxels' = 0
  /\ lastRead' = NoRead
  /\ readLog' = <<>>
  /\ UNCHANGED <<textureSize, frame, viewIndex, voxelDataList, gridVars,
                 failedBefore, output>>

\* processView as the extractor runs call it: any image
ProcessViewAny == LoadImage(AnyImages)

\* processView as the frame loop calls it: the frame's view files
ProcessViewFile == LoadImage(SquareImages(textureSize))

\* one pass of the loop body, for (y, z)
ProcessPixel ==
  /\ pc = "pixel"
  /\ y < img.height
  /\ \E rd \in ReadOutcomes(img, y, z) :
       LET keep == ~rd.crash /\ ~Rejected(rd.bytes[4]) IN
       /\ lastRead' = [y |-> y, z |-> z, off |-> PixelOffset(img, y, z),
                       bytes |-> rd.bytes, inb |-> rd.inb, kept |-> keep]
       /\ readLog' = IF rd.crash THEN readLog ELSE Append(readLog, rd.bytes)
       /\ pc' = IF rd.crash THEN "segv" ELSE "pixel"
       /\ voxelDataList' =
            IF keep
            THEN Append(voxelDataList, MakeVoxel(viewIndex, textureSize, rd.bytes, y, z))
            ELSE voxelDataList
       /\ processedVoxels' = IF keep THEN processedVoxels + 1 ELSE processedVoxels
       /\ skippedVoxels' =
            IF ~rd.crash /\ ~keep THEN skippedVoxels + 1 ELSE skippedVoxels
       /\ z' = IF rd.crash THEN z ELSE IF z + 1 < img.width THEN z + 1 ELSE 0
       /\ y' = IF rd.crash THEN y ELSE IF z + 1 < img.width THEN y ELSE y + 1
  /\ UNCHANGED <<textureSize, frame, viewIndex, img, gridVars, frameInputs,
                 failedBefore, output>>

\* the loop is over: stbi_image_free and return
ViewReturn ==
  /\ pc = "pixel"
  /\ y >= img.height
  /\ pc' = "ret"
  /\ UNCHANGED <<textureSize, frame, viewIndex, viewVars, voxelDataList,
                 gridVars, frameInputs, failedBefore, output>>

\* InRange with the upper bounds off by one
InRangeInclusive(v, n) ==
  /\ v.x >= 0 /\ v.x <= n
  /\ v.y >= 0 /\ v.y <= n
  /\ v.z >= 0 /\ v.z <= n

\* the bounds check of combineVoxels
InRange(v, n) ==
  /\ v.x >= 0 /\ v.x < n
  /\ v.y >= 0 /\ v.y < n
  /\ v.z >= 0 /\ v.z < n

\* tree().getValue(coord): the background value where no voxel is active
GetValue(grid, coord, background) ==
  IF coord \in DOMAIN grid THEN grid[coord] ELSE background

\* tree().setValue(coord, value): sets the value and marks the voxel active
SetValue(grid, coord, value) == (coord :> value) @@ grid

\* CombinedColor overwriting: the arriving color as it is
LatestColor(existingColor, existingAlpha, color, alpha, totalAlpha) == color

\* combinedColor: per channel (existing * existingAlpha + new * alpha) / total
CombinedColor(existingColor, existingAlpha, color, alpha, totalAlpha) ==
  [k \in 1..3 |->
     FDiv(FAdd(FMul(existingColor[k], existingAlpha), FMul(color[k], alpha)),
          totalAlpha)]

\* MergeVoxel leaving the opacity of an occupied coordinate as it is
MergeVoxelStaleAlpha(rgb, alpha, v, n) ==
  IF InRange(v, n)
  THEN LET coord         == <<v.x, v.y, v.z>>
           existingColor == GetValue(rgb, coord, <<FZero, FZero, FZero>>)
           existingAlpha == GetValue(alpha, coord, FZero)
           totalAlpha    == FAdd(existingAlpha, v.alpha)
       IN IF existingAlpha = FZero
          THEN <<SetValue(rgb, coord, v.color), SetValue(alpha, coord, v.alpha)>>
          ELSE <<SetValue(rgb, coord,
                          CombinedColor(existingColor, existingAlpha, v.color,
                                        v.alpha, totalAlpha)),
                 alpha>>
  ELSE <<rgb, alpha>>

\* the body of combineVoxels's loop for one VoxelData: the two grids after it
MergeVoxel(rgb, alpha, v, n) ==
  IF InRange(v, n)
  THEN LET coord         == <<v.x, v.y, v.z>>
           existingColor == GetValue(rgb, coord, <<FZero, FZero, FZero>>)
           existingAlpha == GetValue(alpha, coord, FZero)
           totalAlpha    == FAdd(existingAlpha, v.alpha)
       IN IF existingAlpha = FZero
          THEN <<SetValue(rgb, coord, v.color), SetValue(alpha, coord, v.alpha)>>
          ELSE <<SetValue(rgb, coord,
                          CombinedColor(existingColor, existingAlpha, v.color,
                                        v.alpha, totalAlpha)),
                 SetValue(alpha, coord, totalAlpha)>>
  ELSE <<rgb, alpha>>

\* one pass of combineVoxels's loop
MergeStep ==
  /\ pc = "combine"
  /\ idx <= Len(voxelDataList)
  /\ LET g == MergeVoxel(rgbGrid, alphaGrid, voxelDataList[idx], textureSize)
     IN /\ rgbGrid' = g[1]
        /\ alphaGrid' = g[2]
  /\ idx' = idx + 1
  /\ UNCHANGED <<pc, textureSize, frame, viewIndex, viewVars, voxelDataList,
                 frameInputs, failedBefore, output>>

\* combineVoxels returns
CombineReturn ==
  /\ pc = "combine"
  /\ idx > Len(voxelDataList)
  /\ pc' = "write"
  /\ UNCHANGED <<textureSize, frame, viewIndex, viewVars, voxelDataList,
                 gridVars, frameInputs, failedBefore, output>>

\* FrameBegin with the list declared outside the loop: it is not emptied
FrameBeginSharedList ==
  /\ pc = "frame"
  /\ frame <= EndFrame
  /\ viewIndex' = 0
  /\ frameInputs' = <<>>
  /\ failedBefore' = (failedBefore \/ \E i \in DOMAIN frameInputs : ~frameInputs[i].ok)
  /\ output' = NoOutput
  /\ rgbGrid' = EmptyGrid
  /\ alphaGrid' = EmptyGrid
  /\ idx' = 1
  /\ pc' = "view"
  /\ UNCHANGED <<textureSize, frame, viewVars, voxelDataList>>

\* main: the head of the frame loop and the entry of its body, whose
\* locals (the list, the grid pointers, the file) are new in every pass
FrameBegin ==
  /\ pc = "frame"
  /\ frame <= EndFrame
  /\ voxelDataList' = <<>>
  /\ viewIndex' = 0
  /\ frameInputs' = <<>>
  /\ failedBefore' = (failedBefore \/ \E i \in DOMAIN frameInputs : ~frameInputs[i].ok)
  /\ output' = NoOutput
  /\ rgbGrid' = EmptyGrid
  /\ alphaGrid' = EmptyGrid
  /\ idx' = 1
  /\ pc' = "view"
  /\ UNCHANGED <<textureSize, frame, viewVars>>

\* main: processView returned (its locals are gone), ++viewIndex
ViewLoopNext ==
  /\ pc = "ret"
  /\ viewIndex' = viewIndex + 1
  /\ pc' = "view"
  /\ img' = NullImage
  /\ y' = 0
  /\ z' = 0
  /\ processedVoxels' = 0
  /\ skippedVoxels' = 0
  /\ lastRead' = NoRead
  /\ readLog' = <<>>
  /\ UNCHANGED <<textureSize, frame, voxelDataList, gridVars, frameInputs,
                 failedBefore, output>>

\* main: the view loop is over; Vec3fGrid::create(), FloatGrid::create()
\* and the call of combineVoxels
CreateGrids ==
  /\ pc = "view"
  /\ viewIndex >= NumViews
  /\ rgbGrid' = EmptyGrid
  /\ alphaGrid' = EmptyGrid
  /\ idx' = 1
  /\ pc' = "combine"
  /\ UNCHANGED <<textureSize, frame, viewIndex, viewVars, voxelDataList,
                 frameInputs, failedBefore, output>>

\* main: postRotate of both transforms, then io::File::write, which
\* returns or throws openvdb::IoError; main catches nothing, so a throw
\* ends the process in std::terminate.
WriteFile ==
  /\ pc = "write"
  /\ \E ok \in BOOLEAN :
       /\ output' = [frame |-> frame, rgb |-> rgbGrid, alpha |-> alphaGrid,
                     rot |-> 1, inputs |-> frameInputs, ok |-> ok]
       /\ pc' = IF ok THEN "written" ELSE "terminated"
  /\ UNCHANGED <<textureSize, frame, viewIndex, viewVars, voxelDataList,
                 gridVars, frameInputs, failedBefore>>

\* main: the end of the loop body, ++frame
FrameEnd ==
  /\ pc = "written"
  /\ frame' = frame + 1
  /\ pc' = "frame"
  /\ UNCHANGED <<textureSize, viewIndex, viewVars, voxelDataList, gridVars,
                 frameInputs, failedBefore, output>>

\* main: the frame loop is over, return 0
MainReturn ==
  /\ pc = "frame"
  /\ frame > EndFrame
  /\ pc' = "exit"
  /\ UNCHANGED <<textureSize, frame, viewIndex, viewVars, voxelDataList,
                 gridVars, frameInputs, failedBefore, output>>

----------------------------------------------------------------------------
(* the same code as functions of its inputs *)

\* combineVoxels on a whole list: the two grids when it returns
RECURSIVE CombineVoxels(_, _, _, _)
CombineVoxels(rgb, alpha, list, n) ==
  IF list = <<>> THEN <<rgb, alpha>>
  ELSE LET g == MergeVoxel(rgb, alpha, Head(list), n)
       IN CombineVoxels(g[1], g[2], Tail(list), n)

\* processView's loop from its p-th pass on, for an image all of whose
\* reads are inside the buffer: the list when it returns
RECURSIVE ProcessViewFrom(_, _, _, _, _)
ProcessViewFrom(list, im, view, n, p) ==
  IF p >= im.width * im.height THEN list
  ELSE LET yy    == p \div im.width
           zz    == p % im.width
           bytes == [k \in 1..4 |-> im.data[PixelOffset(im, yy, zz) + k]]
       IN ProcessViewFrom(
            IF Rejected(bytes[4]) THEN list
            ELSE Append(list, MakeVoxel(view, n, bytes, yy, zz)),
            im, view, n, p + 1)

\* processView: the list after the call
ProcessView(list, im, view, n) ==
  IF im.ok THEN ProcessViewFrom(list, im, view, n, 0) ELSE list

\* main's view loop on what the decoder returned for views 0, 1, ...
RECURSIVE ProcessViews(_, _, _, _)
ProcessViews(list, inputs, view, n) ==
  IF view >= Len(inputs) THEN list
  ELSE ProcessViews(ProcessView(list, inputs[view + 1], view, n), inputs, view + 1, n)

\* main's loop body up to the write: the pair of grids of a frame
FrameVolumes(inputs, n) ==
  CombineVoxels(EmptyGrid, EmptyGrid, ProcessViews(<<>>, inputs, 0, n), n)

----------------------------------------------------------------------------
(* the specifications *)

\* The whole program, from the first frame on.
Init ==
  /\ pc = "frame"
  /\ textureSize = SmallTextureSize
  /\ frame = StartFrame
  /\ viewIndex = 0
  /\ img = NullImage
  /\ y = 0
  /\ z = 0
  /\ processedVoxels = 0
  /\ skippedVoxels = 0
  /\ voxelDataList = <<>>
  /\ rgbGrid = EmptyGrid
  /\ alphaGrid = EmptyGrid
  /\ idx = 1
  /\ lastRead = NoRead
  /\ readLog = <<>>
  /\ frameInputs = <<>>
  /\ failedBefore = FALSE
  /\ output = NoOutput

Next ==
  \/ FrameBegin
  \/ ProcessViewFile
  \/ ProcessPixel
  \/ ViewReturn
  \/ ViewLoopNext
  \/ CreateGrids
  \/ MergeStep
  \/ CombineReturn
  \/ WriteFile
  \/ FrameEnd
  \/ MainReturn

Spec == Init /\ [][Next]_vars

\* One call of processView: any view, any texture size, any decoded image.
InitView ==
  /\ pc = "view"
  /\ textureSize \in 2..MaxTextureSize
  /\ frame = StartFrame
  /\ viewIndex \in 0..(NumViews - 1)
  /\ img = NullImage
  /\ y = 0
  /\ z = 0
  /\ processedVoxels = 0
  /\ skippedVoxels = 0
  /\ voxelDataList = <<>>
  /\ rgbGrid = EmptyGrid
  /\ alphaGrid = EmptyGrid
  /\ idx = 1
  /\ lastRead = NoRead
  /\ readLog = <<>>
  /\ frameInputs = <<>>
  /\ failedBefore = FALSE
  /\ output = NoOutput

NextView ==
  \/ ProcessViewAny
  \/ ProcessPixel
  \/ ViewReturn

SpecView == InitView /\ [][NextView]_vars

\* The colors of the accumulator runs, as bytes: the two of the merge
\* example and one with small channels.
ColorBytes == {<<255, 0, 0>>, <<0, 255, 0>>, <<1, 1, 255>>}

\* Their coordinates inside the volume, and outside it on each axis.
InsideSamples(n) == {<<0, 0, 0>>, <<n - 1, 0, n - 1>>}
OutsideSamples(n) == {<<n, 0, 0>>, <<0, -1, 0>>, <<0, 0, n>>}

VoxelAt(c, b) ==
  [x |-> c[1], y |-> c[2], z |-> c[3],
   color |-> <<Normalized(b[1]), Normalized(b[2]), Normalized(b[3])>>,
   alpha |-> One]

\* The contributions of the accumulator runs: every color at the inside
\* coordinates, one color at the outside ones.
VoxelSamples(n) ==
  {VoxelAt(c, b) : c \in InsideSamples(n), b \in ColorBytes}
    \cup {VoxelAt(c, <<255, 0, 0>>) : c \in OutsideSamples(n)}

SeqsUpTo(S, n) == UNION {[1..k -> S] : k \in 0..n}

\* One call of combineVoxels on two fresh grids: any list of contributions.
InitCombine ==
  /\ pc = "combine"
  /\ textureSize = SmallTextureSize
  /\ frame = StartFrame
  /\ viewIndex = NumViews
  /\ img = NullImage
  /\ y = 0
  /\ z = 0
  /\ processedVoxels = 0
  /\ skippedVoxels = 0
  /\ voxelDataList \in SeqsUpTo(VoxelSamples(SmallTextureSize), MaxList)
  /\ rgbGrid = EmptyGrid
  /\ alphaGrid = EmptyGrid
  /\ idx = 1
  /\ lastRead = NoRead
  /\ readLog = <<>>
  /\ frameInputs = <<>>
  /\ failedBefore = FALSE
  /\ output = NoOutput

NextCombine ==
  \/ MergeStep
  \/ CombineReturn

SpecCombine == InitCombine /\ [][NextCombine]_vars

----------------------------------------------------------------------------
(* the claims *)

\* round(num / den) for num >= 0, den > 0, in exact arithmetic
ExactRound(num, den) == (2 * num + den) \div (2 * den)

\* x = round((1 - a) * (N - 1)) for the alpha byte a, in exact arithmetic
ExactAlongAxis(a, n) == ExactRound((255 - a) * (n - 1), 255)

\* t <= 1 - a <= 1 - t for t = 0.05 and the alpha byte a, in exact arithmetic
InBand(a) == 5 * 255 <= 100 * (255 - a) /\ 100 * (255 - a) <= 95 * 255

\* the table of section 4.1, by view
RemapTable(view, n, x, yy, zz) ==
  CASE view = 0 -> <<n - 1 - x, yy, zz>>            \* NX
    [] view = 1 -> <<n - 1 - zz, n - 1 - yy, x>>    \* NY
    [] view = 2 -> <<n - 1 - yy, n - 1 - x, zz>>    \* NZ
    [] view = 3 -> <<x, n - 1 - yy, zz>>            \* PX
    [] view = 4 -> <<n - 1 - zz, yy, n - 1 - x>>    \* PY
    [] view = 5 -> <<yy, x, zz>>                    \* PZ

LastVoxel == voxelDataList[Len(voxelDataList)]

\* C1: the contribution processView emits for a retained pixel with loop
\* coordinates (y, z) and x = round((1 - a)(N - 1)) has the coordinate the
\* table gives for the view; for view -x, N = 4, y = 1, z = 2, x = 3 it is
\* (0, 1, 2).
C1_RemapTable ==
  lastRead.kept =>
    LET x == ExactAlongAxis(lastRead.bytes[4], textureSize)
        c == <<LastVoxel.x, LastVoxel.y, LastVoxel.z>>
    IN /\ c = RemapTable(viewIndex, textureSize, x, lastRead.y, lastRead.z)
       /\ (viewIndex = 0 /\ textureSize = 4 /\ lastRead.y = 1 /\ lastRead.z = 2 /\ x = 3)
            => c = <<0, 1, 2>>

\* C1's case: view -x, N = 4, the pixel y = 1, z = 2 with x = 3 was retained
C1_Witness ==
  /\ lastRead.kept
  /\ viewIndex = 0 /\ textureSize = 4
  /\ lastRead.y = 1 /\ lastRead.z = 2
  /\ ExactAlongAxis(lastRead.bytes[4], textureSize) = 3
  /\ <<LastVoxel.x, LastVoxel.y, LastVoxel.z>> = <<0, 1, 2>>

KeptReads == SelectSeq(readLog, LAMBDA b : InBand(b[4]))

\* C5: in a call of processView the contributions appended are, in order,
\* one per pixel read whose depth 1 - a lies in [t, 1 - t], with weight 1.0
\* and the r, g, b read for that pixel, and none for any other pixel; alpha
\* bytes next to a = 0.99 are excluded and those next to a = 0.5 included.
C5_ThresholdBand ==
  /\ Len(voxelDataList) = Len(KeptReads)
  /\ \A i \in DOMAIN voxelDataList :
       /\ voxelDataList[i].alpha = FromInt(1)
       /\ voxelDataList[i].color = <<Normalized(KeptReads[i][1]),
                                     Normalized(KeptReads[i][2]),
                                     Normalized(KeptReads[i][3])>>
  /\ processedVoxels = Len(KeptReads)
  /\ skippedVoxels = Len(readLog) - Len(KeptReads)
  /\ (lastRead.y >= 0 /\ pc # "segv")
       => /\ lastRead.kept = InBand(lastRead.bytes[4])
          /\ lastRead.bytes[4] \in {252, 253} => ~lastRead.kept
          /\ lastRead.bytes[4] \in {127, 128} => lastRead.kept

\* C5's case: a view has returned having read a pixel at each edge of the
\* band on either side, and kept some and dropped some
C5_Witness ==
  /\ pc = "ret"
  /\ {12, 13, 242, 243, 252, 128} \subseteq {readLog[i][4] : i \in DOMAIN readLog}
  /\ Len(voxelDataList) >= 3
  /\ skippedVoxels >= 3

\* C8: the bytes read for loop variables (y, z) are the channels of the
\* pixel stored at row y, column z of the row-major RGBA buffer, at offset
\* (y * width + z) * channels.
C8_RowColumn ==
  (lastRead.y >= 0 /\ lastRead.inb /\ img.channels = 4)
    => lastRead.bytes =
         [k \in 1..4 |-> img.data[(lastRead.y * img.width + lastRead.z) * 4 + k]]

\* C10: every index processView reads lies inside the decoded buffer.
C10_ReadsInBounds == lastRead.inb

\* the contributions among the first k of the list that lie in the volume
InVolume(v, n) == {v.x, v.y, v.z} \subseteq 0..(n - 1)
Merged(k) == SelectSeq(SubSeq(voxelDataList, 1, k), LAMBDA v : InVolume(v, textureSize))
At(list, c) == SelectSeq(list, LAMBDA v : <<v.x, v.y, v.z>> = c)

Orders(n) == {p \in [1..n -> 1..n] : \A i, j \in 1..n : p[i] = p[j] => i = j}
Permuted(list, p) == [i \in 1..Len(list) |-> list[p[i]]]

Half == [m |-> 2^23, e |-> -24]
Two == FromInt(2)

\* C2, as claimed: when combineVoxels returns, every permutation of the
\* list gives the same color and opacity at every coordinate.
C2_OrderIndependent ==
  pc = "write" =>
    \A p \in Orders(Len(voxelDataList)) :
      CombineVoxels(EmptyGrid, EmptyGrid, Permuted(voxelDataList, p), textureSize)
        = <<rgbGrid, alphaGrid>>

\* C2, amended: for contributions of weight 1.0, every permutation of the
\* list gives the same opacity at every coordinate, the number of
\* contributions targeting it, and the same color at every coordinate that
\* receives at most two: the color of the one, or the per-channel float
\* mean of the two, (0.5, 0.5, 0) for (1, 0, 0) and (0, 1, 0).
C2_OrderIndependentUpToTwo ==
  pc = "write" =>
    \A p \in Orders(Len(voxelDataList)) :
      LET g == CombineVoxels(EmptyGrid, EmptyGrid, Permuted(voxelDataList, p),
                             textureSize)
      IN /\ g[2] = alphaGrid
         /\ DOMAIN g[1] = DOMAIN rgbGrid
         /\ \A c \in DOMAIN alphaGrid :
              LET here == At(Merged(Len(voxelDataList)), c) IN
              /\ alphaGrid[c] = FromInt(Len(here))
              /\ Len(here) <= 2 => g[1][c] = rgbGrid[c]
              /\ Len(here) = 1 => rgbGrid[c] = here[1].color
              /\ Len(here) = 2 =>
                   /\ rgbGrid[c] = [k \in 1..3 |->
                        FDiv(FAdd(here[1].color[k], here[2].color[k]), Two)]
                   /\ ({here[1].color, here[2].color}
                         = {<<One, FZero, FZero>>, <<FZero, One, FZero>>})
                        => (rgbGrid[c] = <<Half, Half, FZero>> /\ alphaGrid[c] = Two)

\* C2's case: combineVoxels has returned from a list that puts (1, 0, 0)
\* then (0, 1, 0) on one coordinate, a single contribution on another, and
\* holds a contribution that is dropped
C2_Witness ==
  /\ pc = "write"
  /\ Len(voxelDataList) = 3
  /\ \E c, d \in DOMAIN rgbGrid :
       /\ c # d
       /\ rgbGrid[c] = <<Half, Half, FZero>>
       /\ alphaGrid[c] = Two
       /\ alphaGrid[d] = One

\* C6: combineVoxels records no coordinate outside [0, N-1]^3, and the
\* grids are those the in-range contributions alone give: a contribution
\* with a coordinate outside, N and -1 included, changes nothing.
C6_OutOfRangeDropped ==
  /\ \A c \in DOMAIN rgbGrid \cup DOMAIN alphaGrid :
       \A k \in 1..3 : 0 <= c[k] /\ c[k] <= textureSize - 1
  /\ pc \in {"combine", "write"} =>
       <<rgbGrid, alphaGrid>> =
         CombineVoxels(EmptyGrid, EmptyGrid, Merged(idx - 1), textureSize)

\* C6's case: combineVoxels has returned from a list with a contribution
\* at x = N, one at y = -1 and one inside the volume
C6_Witness ==
  /\ pc = "write"
  /\ \E i, j, k \in DOMAIN voxelDataList :
       /\ voxelDataList[i].x = textureSize
       /\ voxelDataList[j].y = -1
       /\ InVolume(voxelDataList[k], textureSize)
  /\ Cardinality(DOMAIN rgbGrid) = 1

\* C9: after any number of merge steps the two grids hold the same
\* coordinates, and the opacity at each is the number of contributions
\* merged there, which is at least one.
C9_CoIndexedPositive ==
  /\ DOMAIN rgbGrid = DOMAIN alphaGrid
  /\ pc \in {"combine", "write"} =>
       \A c \in DOMAIN alphaGrid :
         /\ alphaGrid[c] = FromInt(Len(At(Merged(idx - 1), c)))
         /\ Len(At(Merged(idx - 1), c)) >= 1
         /\ FLess(FZero, alphaGrid[c])

\* C9's case: in the middle of combineVoxels, with a contribution still to
\* merge, a coordinate holds two contributions merged
C9_Witness ==
  /\ pc = "combine"
  /\ idx <= Len(voxelDataList)
  /\ \E c \in DOMAIN alphaGrid : alphaGrid[c] = Two /\ c \in DOMAIN rgbGrid

AllFailed(inputs) == \A i \in DOMAIN inputs : ~inputs[i].ok

\* C3, as claimed: when the writer fails on a frame the driver goes on to
\* the next frame.
C3_WriteFailureContinues == ~output.ok => pc = "written"

\* C4: a view whose image does not decode leaves the contribution list as
\* it was and returns; the views after it are still processed and the
\* frame is handed to the writer, whichever views fail; when all six fail
\* the pair handed over is empty.
C4_DecodeFailureSkipped ==
  /\ [][(pc = "view" /\ viewIndex < NumViews /\ ~img'.ok)
          => (voxelDataList' = voxelDataList /\ pc' = "ret"
              /\ viewIndex' = viewIndex /\ frame' = frame)]_vars
  /\ []((pc \in {"written", "terminated"})
          => /\ Len(frameInputs) = NumViews
             /\ output.frame = frame
             /\ output.inputs = frameInputs
             /\ AllFailed(frameInputs)
                  => (output.rgb = EmptyGrid /\ output.alpha = EmptyGrid))
  /\ [][(pc = "ret" /\ ~img.ok)
          => (pc' = "view" /\ viewIndex' = viewIndex + 1
              /\ voxelDataList' = voxelDataList /\ frame' = frame)]_vars
  /\ []((pc = "ret" /\ ~img.ok) => ENABLED ViewLoopNext)

\* C4's case: a frame all of whose views failed to decode has been handed
\* to the writer, after a frame in which some view failed and some did not
C4_Witness ==
  /\ pc = "written"
  /\ output.ok
  /\ frame > StartFrame
  /\ failedBefore
  /\ AllFailed(frameInputs)
  /\ output.rgb = EmptyGrid

\* C7: the pair of grids handed to the writer for a frame, and the
\* contribution list it was built from, are those the frame's own six
\* decoder results and N determine, whatever the frames before it read.
C7_FrameIsolation ==
  (pc \in {"written", "terminated"}) =>
    /\ voxelDataList = ProcessViews(<<>>, frameInputs, 0, textureSize)
    /\ <<output.rgb, output.alpha>> = FrameVolumes(frameInputs, textureSize)

\* C7's case: a later frame, all of whose views decoded, has been written
\* after a frame in which a view failed to decode
C7_Witness ==
  /\ pc = "written"
  /\ frame > StartFrame
  /\ failedBefore
  /\ \A i \in DOMAIN frameInputs : frameInputs[i].ok
  /\ output.rgb # EmptyGrid

====
